---- MODULE Spec2Model ----
(***************************************************************************)
(* Multi_RSS synchronization engine: item identity, the conditional       *)
(* fetcher, the merge of a parsed payload into a feed, the background      *)
(* refresh thread and the foreground key handlers that share the store     *)
(* behind one mutex.                                                       *)
(*                                                                         *)
(* The specifications share the operators translated from the source:     *)
(*   MergeSpec  one feed, Feed::merge_items applied to bounded payloads,   *)
(*              with the foreground's flag edits in between;               *)
(*   VisitSpec  one feed, the refresh loop's body (fetch_feed, then the    *)
(*              assignment of the validators and the merge) applied to     *)
(*              bounded HTTP responses;                                    *)
(*   Spec       the refresh thread and the foreground loop over the store, *)
(*              from the store main() builds out of load_db's result;      *)
(*   LiveSpec   Spec from one stored group, with the fairness of the       *)
(*              threads' scheduling;                                       *)
(*   ManagerSpec  the refresh manager of net::refresh, which main() never  *)
(*              spawns, with the senders of its trigger channel.           *)
(***************************************************************************)
EXTENDS Integers, Sequences, FiniteSets, TLC

VARIABLES
    feed,           \* MergeSpec, VisitSpec: the feed under test
    obs,            \* MergeSpec, VisitSpec: what the last step did, and its input;
                    \* Spec: whether load_db succeeded
    groups,         \* the store: Arc<Mutex<Vec<Group>>>
    lock,           \* the owner of the store's mutex: "free", "bg" or "fg"
    bg,             \* the refresh thread: its place in the loop and its locals
    cycles,         \* the refresh cycles started so far
    status_tx,      \* the (time, new_items) messages sent and not yet received
    disk,           \* the database file: None, Some(groups) as last saved, or
                    \* a part of the JSON of groups, which does not parse
    fgPc,           \* the foreground's place in run_app
    key,            \* the key code the foreground is handling
    keys,           \* the key events read so far
    app,            \* AppState: focus, the selection (counted from 0, as in the
                    \* source), queue, search, config.ui and the last status
    indices,        \* handle_items_key's local: what visible_indices returned
    edit,           \* the last flag edit of handle_items_key no cycle has met yet
    mgr             \* net::refresh's manager task, its trigger channel, its senders

pureVars == <<feed, obs>>

fgVars == <<fgPc, key, keys, indices, edit, app>>

bgVars == <<bg, cycles>>

mainVars == <<groups, lock, bgVars, status_tx, disk, fgVars, mgr>>

vars == <<pureVars, mainVars>>

(***************************************************************************)
(* Bounds of the model.                                                    *)
(***************************************************************************)
MaxEntries == 2

MaxCycles == 1

MaxKeys == 3

\* interval ticks that come due after the first, immediate one
MaxTicks == 1

\* triggers sent on the manager's channel
MaxTriggers == 3

(***************************************************************************)
(* Option<T>: None is the empty sequence, Some(v) the one-element one.     *)
(***************************************************************************)
None == <<>>

Some(v) == <<v>>

\* Option::or
OptOr(a, b) == IF a # None THEN a ELSE b

\* Option::unwrap_or / unwrap_or_default
UnwrapOr(o, d) == IF o # None THEN o[1] ELSE d

(***************************************************************************)
(* Item identity.  The first 16 hex digits of SHA-1, tabulated for the     *)
(* strings the model uses (the values are those sha1 computes).            *)
(***************************************************************************)
Sha1Hex16(s) ==
    CASE s = "a"  -> "86f7e437faa5a7fc"
      [] s = "b"  -> "e9d71f5ee7c92d6d"
      [] s = "l1" -> "39a89dd158c8e974"
      [] s = "l2" -> "95438a383abe53ef"
      [] s = ""   -> "da39a3ee5e6b4b0d"

\* An identity taken from the link whenever the entry has one.
gen_id_by_link(id, link) == Sha1Hex16(IF link # "" THEN link ELSE UnwrapOr(id, link))

gen_id(id, link) == Sha1Hex16(UnwrapOr(id, link))

(***************************************************************************)
(* Parsed entries (feed_rs::model::Entry, as far as merge_items reads it)  *)
(* and parsed feeds.  The four entries cover: the same upstream id with    *)
(* changed content and time (A1, A2), published taking precedence over     *)
(* updated (A1), updated alone (A2), no time at all (B0), absent title,    *)
(* link and summary (A2, B0), and equal timestamps of different entries    *)
(* (A2, B2).                                                               *)
(***************************************************************************)
EntryA1 ==
    [id |-> "a", title |-> Some("hi"), links |-> <<"l1">>, summary |-> Some("s1"),
     published |-> Some(100), updated |-> Some(200)]

EntryA2 ==
    [id |-> "a", title |-> None, links |-> <<>>, summary |-> None,
     published |-> None, updated |-> Some(200)]

EntryB2 ==
    [id |-> "b", title |-> Some("yo"), links |-> <<"l2", "l1">>, summary |-> Some("s2"),
     published |-> Some(200), updated |-> None]

EntryB0 ==
    [id |-> "b", title |-> Some("yo"), links |-> <<"l2">>, summary |-> None,
     published |-> None, updated |-> None]

Entries == {EntryA1, EntryA2, EntryB2, EntryB0}

SeqsUpTo(S, n) == UNION {[1..k -> S] : k \in 0..n}

FeedTitles == {None, Some("Title")}

ParsedFeeds == {[title |-> t, entries |-> es] : t \in FeedTitles, es \in SeqsUpTo(Entries, MaxEntries)}

(***************************************************************************)
(* Feed::merge_items                                                       *)
(***************************************************************************)
\* HashMap<String, Item> collected from the items in order: a later item
\* with the same id replaces an earlier one.
ExistingById(items) ==
    [id \in {items[i].id : i \in DOMAIN items} |->
        items[CHOOSE i \in DOMAIN items :
                /\ items[i].id = id
                /\ \A j \in DOMAIN items : items[j].id = id => j <= i]]

\* An item that takes the entry's updated time before its published time.
ItemOfEntryUpdatedFirst(existing, entry) ==
    LET link == IF Len(entry.links) > 0 THEN entry.links[1] ELSE ""
        id == gen_id(Some(entry.id), link)
        item == [id |-> id,
                 title |-> UnwrapOr(entry.title, ""),
                 link |-> link,
                 desc |-> UnwrapOr(entry.summary, ""),
                 timestamp |-> UnwrapOr(OptOr(entry.updated, entry.published), 0),
                 read |-> FALSE,
                 queued |-> FALSE]
    IN  IF id \in DOMAIN existing
        THEN [item EXCEPT !.read = existing[id].read, !.queued = existing[id].queued]
        ELSE item

\* The Item built for one entry, with the flags of the existing item of the
\* same id when there is one.
ItemOfEntry(existing, entry) ==
    LET link == IF Len(entry.links) > 0 THEN entry.links[1] ELSE ""
        id == gen_id(Some(entry.id), link)
        item == [id |-> id,
                 title |-> UnwrapOr(entry.title, ""),
                 link |-> link,
                 desc |-> UnwrapOr(entry.summary, ""),
                 timestamp |-> UnwrapOr(OptOr(entry.published, entry.updated), 0),
                 read |-> FALSE,
                 queued |-> FALSE]
    IN  IF id \in DOMAIN existing
        THEN [item EXCEPT !.read = existing[id].read, !.queued = existing[id].queued]
        ELSE item

\* One step of a stable sort by timestamp, newest first: the item goes after
\* every item already placed whose timestamp is not smaller.
InsertNewestFirst(sorted, item) ==
    LET k == Cardinality({i \in DOMAIN sorted : sorted[i].timestamp >= item.timestamp})
    IN  SubSeq(sorted, 1, k) \o <<item>> \o SubSeq(sorted, k + 1, Len(sorted))

RECURSIVE SortFrom(_, _, _)
SortFrom(items, i, sorted) ==
    IF i > Len(items) THEN sorted
    ELSE SortFrom(items, i + 1, InsertNewestFirst(sorted, items[i]))

\* new_items.sort_by(|a, b| b.timestamp.cmp(&a.timestamp)), a stable sort
SortNewestFirst(items) == SortFrom(items, 1, <<>>)

\* A merge that keeps the old items and appends the new ones.
merge_items_append(self, parsed) ==
    LET existing == ExistingById(self.items)
        new_items == [i \in DOMAIN parsed.entries |-> ItemOfEntry(existing, parsed.entries[i])]
    IN  [self EXCEPT !.title = UnwrapOr(parsed.title, self.title),
                     !.items = SortNewestFirst(self.items \o new_items)]

\* A merge that keeps a tombstone: an old item that is read or queued stays
\* when the payload no longer holds it.
merge_items_tombstone(self, parsed) ==
    LET existing == ExistingById(self.items)
        new_items == [i \in DOMAIN parsed.entries |-> ItemOfEntry(existing, parsed.entries[i])]
        ids == {new_items[i].id : i \in DOMAIN new_items}
        kept == SelectSeq(self.items, LAMBDA it : it.id \notin ids /\ (it.read \/ it.queued))
    IN  [self EXCEPT !.title = UnwrapOr(parsed.title, self.title),
                     !.items = SortNewestFirst(new_items \o kept)]

\* A merge that leaves the new items in the payload's order.
merge_items_unsorted(self, parsed) ==
    LET existing == ExistingById(self.items)
        new_items == [i \in DOMAIN parsed.entries |-> ItemOfEntry(existing, parsed.entries[i])]
    IN  [self EXCEPT !.title = UnwrapOr(parsed.title, self.title),
                     !.items = new_items]

merge_items(self, parsed) ==
    LET existing == ExistingById(self.items)
        new_items == [i \in DOMAIN parsed.entries |-> ItemOfEntry(existing, parsed.entries[i])]
    IN  [self EXCEPT !.title = UnwrapOr(parsed.title, self.title),
                     !.items = SortNewestFirst(new_items)]

(***************************************************************************)
(* fetch_feed.  A response is what the network gives back for one GET:     *)
(* whether send() succeeded, the status, the ETag and Last-Modified        *)
(* headers (absent, or a header value that is visible ASCII or not), and   *)
(* the body (unreadable, malformed for the parser, or a parsable feed).    *)
(***************************************************************************)
NOT_MODIFIED == 304

Statuses == {200, NOT_MODIFIED, 404}

HeaderValue(text, ascii) == [text |-> text, visible_ascii |-> ascii]

EtagHeaders ==
    {None, Some(HeaderValue("e1", TRUE)), Some(HeaderValue("e2", TRUE)),
     Some(HeaderValue("e-obs-text", FALSE))}

LastModifiedHeaders ==
    {None, Some(HeaderValue("m1", TRUE)), Some(HeaderValue("m2", TRUE)),
     Some(HeaderValue("m-obs-text", FALSE))}

BodyUnreadable == [kind |-> "unreadable"]

BodyMalformed == [kind |-> "malformed"]

BodyFeed(parsed) == [kind |-> "feed", feed |-> parsed]

\* The payloads of the bodies VisitSpec and Spec draw from.
VisitFeeds ==
    {[title |-> None, entries |-> <<>>],
     [title |-> Some("Title"), entries |-> <<EntryA1>>],
     [title |-> None, entries |-> <<EntryB2, EntryA1>>]}

Bodies == {BodyUnreadable, BodyMalformed} \cup {BodyFeed(p) : p \in VisitFeeds}

SendFailed == [sent |-> FALSE]

Responses ==
    {SendFailed} \cup
    {[sent |-> TRUE, status |-> st, etag |-> e, last_modified |-> m, body |-> b] :
        st \in Statuses, e \in EtagHeaders, m \in LastModifiedHeaders, b \in Bodies}

\* headers().get(NAME).and_then(|v| v.to_str().ok()).map(|s| s.to_string()):
\* HeaderValue::to_str fails on a value that is not visible ASCII.
HeaderString(header) ==
    IF header = None THEN None
    ELSE IF header[1].visible_ascii THEN Some(header[1].text) ELSE None

FetchErr == [ok |-> FALSE]

FetchOk(etag, last, parsed) == [ok |-> TRUE, etag |-> etag, last |-> last, feed |-> parsed]

\* A fetch that returns the response's validators on 304 as on any status.
fetch_feed_no_fallback(url, etag, last_modified, resp) ==
    IF ~resp.sent THEN FetchErr
    ELSE LET new_etag == HeaderString(resp.etag)
             new_last == HeaderString(resp.last_modified)
         IN  IF resp.status = NOT_MODIFIED
             THEN FetchOk(new_etag, new_last, None)
             ELSE IF resp.body.kind # "feed" THEN FetchErr
             ELSE FetchOk(new_etag, new_last, Some(resp.body.feed))

fetch_feed(url, etag, last_modified, resp) ==
    IF ~resp.sent THEN FetchErr
    ELSE LET new_etag == HeaderString(resp.etag)
             new_last == HeaderString(resp.last_modified)
         IN  IF resp.status = NOT_MODIFIED
             THEN FetchOk(OptOr(new_etag, etag), OptOr(new_last, last_modified), None)
             ELSE IF resp.body.kind # "feed" THEN FetchErr
             ELSE FetchOk(new_etag, new_last, Some(resp.body.feed))

\* A refresh loop that takes Ok with no payload for an empty feed.
apply_fetched_replacing(f, fetched) ==
    IF fetched.ok
    THEN IF fetched.feed # None
         THEN merge_items([f EXCEPT !.etag = fetched.etag, !.last_modified = fetched.last],
                          fetched.feed[1])
         ELSE [f EXCEPT !.etag = fetched.etag, !.last_modified = fetched.last, !.items = <<>>]
    ELSE f

(***************************************************************************)
(* The body of the refresh loop for one feed, after fetch_feed returned:   *)
(* if let Ok((etag, last, Some(parsed))) = ... { ... }                     *)
(***************************************************************************)
apply_fetched(f, fetched) ==
    IF fetched.ok /\ fetched.feed # None
    THEN merge_items([f EXCEPT !.etag = fetched.etag, !.last_modified = fetched.last],
                     fetched.feed[1])
    ELSE f

(***************************************************************************)
(* Foreground edits of one item's flags (handle_items_key).                *)
(***************************************************************************)
\* ' ' toggles read
toggle_read(f, idx) == [f EXCEPT !.items[idx].read = ~f.items[idx].read]

\* 'q' toggles queued
toggle_queued(f, idx) == [f EXCEPT !.items[idx].queued = ~f.items[idx].queued]

\* Feed { url, title: url, ..Feed::default() }
NewFeed(url) ==
    [url |-> url, title |-> url, items |-> <<>>, etag |-> None, last_modified |-> None]

(***************************************************************************)
(* Groups and the unread count.                                            *)
(***************************************************************************)
RECURSIVE SumSeq(_)
SumSeq(ns) == IF ns = <<>> THEN 0 ELSE Head(ns) + SumSeq(Tail(ns))

\* f.items.iter().filter(|i| !i.read).count()
UnreadOf(f) == Cardinality({i \in DOMAIN f.items : ~f.items[i].read})

\* A recount that takes every item, read or not.
update_unread_total(group) ==
    [group EXCEPT !.unread_count =
        SumSeq([k \in DOMAIN group.feeds |-> Len(group.feeds[k].items)])]

update_unread(group) ==
    [group EXCEPT !.unread_count =
        SumSeq([k \in DOMAIN group.feeds |-> UnreadOf(group.feeds[k])])]

\* Group { name, ..Group::default() }
NewGroup(name) == [name |-> name, feeds |-> <<>>, unread_count |-> 0]

RemoveAt(s, i) == SubSeq(s, 1, i - 1) \o SubSeq(s, i + 1, Len(s))

mark_feed_read(f) ==
    [f EXCEPT !.items = [i \in DOMAIN f.items |-> [f.items[i] EXCEPT !.read = TRUE]]]

\* A mark_group_read that leaves the count as it was.
mark_group_read_stale(group) ==
    [group EXCEPT !.feeds = [k \in DOMAIN group.feeds |-> mark_feed_read(group.feeds[k])]]

mark_group_read(group) ==
    update_unread(
        [group EXCEPT !.feeds = [k \in DOMAIN group.feeds |-> mark_feed_read(group.feeds[k])]])

\* Every unread item is opened (open_link, outside the model) and marked read.
open_unread_feed(f) ==
    [f EXCEPT !.items =
        [i \in DOMAIN f.items |->
            IF ~f.items[i].read THEN [f.items[i] EXCEPT !.read = TRUE] ELSE f.items[i]]]

open_unread_group(group) ==
    update_unread(
        [group EXCEPT !.feeds = [k \in DOMAIN group.feeds |-> open_unread_feed(group.feeds[k])]])

(***************************************************************************)
(* AppState and the prompts.                                               *)
(***************************************************************************)
NewAppState(order) ==
    [focus |-> "Groups", queue |-> <<>>, search |-> "", selected_group |-> 0,
     selected_feed |-> 0, selected_item |-> 0, unread_only |-> FALSE, sort |-> order,
     status |-> None]

\* What prompt() can return: None for an empty line, else the trimmed line.
PromptInputs == {None, Some("Y"), Some("h")}

\* str::to_lowercase on the strings of the model
ToLower(str) == IF str = "Y" THEN "y" ELSE str

\* confirm(): the answer of the prompt is "y" or "yes", in any case
confirm(input) == input # None /\ ToLower(input[1]) \in {"y", "yes"}

\* str::contains on the strings of the model
Substrings(str) ==
    CASE str = "hi" -> {"", "h", "i", "hi"}
      [] str = "yo" -> {"", "y", "o", "yo"}
      [] OTHER -> {""} \cup {str}

Contains(hay, needle) == needle \in Substrings(hay)

\* String ordering on the titles of the model
TitleRank(str) == CASE str = "" -> 0 [] str = "hi" -> 1 [] str = "yo" -> 2

\* The result of a handler: the app state and the store it leaves, or a panic
\* (an index out of range).
Done(a, gs) == [app |-> a, groups |-> gs, panic |-> FALSE]

Panic(a, gs) == [app |-> a, groups |-> gs, panic |-> TRUE]

(***************************************************************************)
(* visible_indices: the indices (from 0) of the selected feed's items that *)
(* pass the unread and search filters, in the configured order.            *)
(***************************************************************************)
InsertByRank(sorted, x, rank) ==
    LET k == Cardinality({i \in DOMAIN sorted : rank[sorted[i]] <= rank[x]})
    IN  SubSeq(sorted, 1, k) \o <<x>> \o SubSeq(sorted, k + 1, Len(sorted))

RECURSIVE SortByRankFrom(_, _, _, _)
SortByRankFrom(idx, i, sorted, rank) ==
    IF i > Len(idx) THEN sorted
    ELSE SortByRankFrom(idx, i + 1, InsertByRank(sorted, idx[i], rank), rank)

\* idx.sort_by(...), a stable sort, ascending in rank
SortByRank(idx, rank) == SortByRankFrom(idx, 1, <<>>, rank)

SortOrders == {"date", "title", "channel"}

visible_indices(a, gs) ==
    IF gs = <<>> THEN [indices |-> <<>>, panic |-> FALSE]
    ELSE IF a.selected_group >= Len(gs) THEN [indices |-> <<>>, panic |-> TRUE]
    ELSE IF gs[a.selected_group + 1].feeds = <<>> THEN [indices |-> <<>>, panic |-> FALSE]
    ELSE IF a.selected_feed >= Len(gs[a.selected_group + 1].feeds)
         THEN [indices |-> <<>>, panic |-> TRUE]
    ELSE LET items == gs[a.selected_group + 1].feeds[a.selected_feed + 1].items
             query == ToLower(a.search)
             Visible(n) ==
                 /\ (~a.unread_only \/ ~items[n + 1].read)
                 /\ (query = "" \/ Contains(ToLower(items[n + 1].title), query))
             idx == SelectSeq([i \in 1..Len(items) |-> i - 1], Visible)
             byDate == [n \in 0..(Len(items) - 1) |-> 0 - items[n + 1].timestamp]
             byTitle == [n \in 0..(Len(items) - 1) |-> TitleRank(items[n + 1].title)]
         IN  [indices |-> CASE a.sort = "date" -> SortByRank(idx, byDate)
                            [] a.sort = "title" -> SortByRank(idx, byTitle)
                            [] a.sort = "channel" -> idx,
              panic |-> FALSE]

(***************************************************************************)
(* handle_groups_key.  input is what the prompt returned, read only by the *)
(* keys that prompt.                                                       *)
(***************************************************************************)
\* A selection that stays where it was when the selected element is removed.
AfterRemoveKeeping(sel, n) == sel

\* if selected >= len && selected > 0 { selected -= 1 }, len taken after the
\* removal
AfterRemove(sel, n) == IF sel >= n /\ sel > 0 THEN sel - 1 ELSE sel

\* The handler reaches a prompt (with the store locked).
GroupsKeyPrompts(code, a, gs) ==
    \/ code = "a"
    \/ code \in {"d", "r", "O"} /\ a.selected_group < Len(gs)

handle_groups_key(code, a, gs, input) ==
    LET g == a.selected_group
        reset(n) == [a EXCEPT !.selected_group = n, !.selected_feed = 0, !.selected_item = 0]
    IN  CASE code = "Up" ->
               IF g > 0 THEN Done(reset(g - 1), gs) ELSE Done(a, gs)
          [] code = "Down" ->
               IF g + 1 < Len(gs) THEN Done(reset(g + 1), gs) ELSE Done(a, gs)
          [] code = "Right" -> Done([a EXCEPT !.focus = "Feeds"], gs)
          [] code = "a" ->
               IF input # None
               THEN Done(reset(Len(gs)), Append(gs, NewGroup(input[1])))
               ELSE Done(a, gs)
          [] code = "d" ->
               IF gs = <<>> THEN Done(a, gs)
               ELSE IF g >= Len(gs) THEN Panic(a, gs)
               ELSE IF confirm(input)
                    THEN LET rest == RemoveAt(gs, g + 1)
                         IN  Done(reset(AfterRemove(g, Len(rest))), rest)
                    ELSE Done(a, gs)
          [] code = "r" ->
               IF g < Len(gs) /\ input # None
               THEN Done(a, [gs EXCEPT ![g + 1].name = input[1]])
               ELSE Done(a, gs)
          [] code = "A" ->
               IF g < Len(gs)
               THEN Done(a, [gs EXCEPT ![g + 1] = mark_group_read(gs[g + 1])])
               ELSE Done(a, gs)
          [] code = "O" ->
               IF g < Len(gs) /\ confirm(input)
               THEN Done(a, [gs EXCEPT ![g + 1] = open_unread_group(gs[g + 1])])
               ELSE Done(a, gs)
          [] OTHER -> Done(a, gs)

(***************************************************************************)
(* handle_feeds_key                                                        *)
(***************************************************************************)
FeedsKeyPrompts(code, a, gs) ==
    /\ gs # <<>>
    /\ \/ code = "a"
       \/ /\ code = "d"
          /\ a.selected_group < Len(gs)
          /\ gs[a.selected_group + 1].feeds # <<>>
          /\ a.selected_feed < Len(gs[a.selected_group + 1].feeds)

handle_feeds_key(code, a, gs, input) ==
    LET g == a.selected_group
        f == a.selected_feed
    IN  IF gs = <<>> THEN Done(a, gs)
        ELSE CASE code = "Up" ->
                    IF f > 0
                    THEN Done([a EXCEPT !.selected_feed = f - 1, !.selected_item = 0], gs)
                    ELSE Done(a, gs)
               [] code = "Left" -> Done([a EXCEPT !.focus = "Groups"], gs)
               [] code = "Right" -> Done([a EXCEPT !.focus = "Items"], gs)
               [] code = "a" ->
                    IF input = None THEN Done(a, gs)
                    ELSE IF g >= Len(gs) THEN Panic(a, gs)
                    ELSE Done([a EXCEPT !.selected_feed = Len(gs[g + 1].feeds),
                                        !.selected_item = 0],
                              [gs EXCEPT ![g + 1].feeds = Append(@, NewFeed(input[1]))])
               [] code \in {"Down", "d", "A", "O"} /\ g >= Len(gs) -> Panic(a, gs)
               [] code = "Down" /\ g < Len(gs) ->
                    IF f + 1 < Len(gs[g + 1].feeds)
                    THEN Done([a EXCEPT !.selected_feed = f + 1, !.selected_item = 0], gs)
                    ELSE Done(a, gs)
               [] code = "d" /\ g < Len(gs) ->
                    IF gs[g + 1].feeds = <<>> THEN Done(a, gs)
                    ELSE IF f >= Len(gs[g + 1].feeds) THEN Panic(a, gs)
                    ELSE IF confirm(input)
                         THEN LET rest == RemoveAt(gs[g + 1].feeds, f + 1)
                                  sel == AfterRemove(f, Len(rest))
                              IN  Done([a EXCEPT !.selected_feed = sel, !.selected_item = 0],
                                       [gs EXCEPT ![g + 1] =
                                           update_unread([gs[g + 1] EXCEPT !.feeds = rest])])
                         ELSE Done(a, gs)
               [] code = "A" /\ g < Len(gs) ->
                    IF f < Len(gs[g + 1].feeds)
                    THEN Done(a, [gs EXCEPT ![g + 1] =
                                    update_unread([gs[g + 1] EXCEPT !.feeds[f + 1] =
                                                      mark_feed_read(@)])])
                    ELSE Done(a, gs)
               [] code = "O" /\ g < Len(gs) ->
                    IF f < Len(gs[g + 1].feeds)
                    THEN Done(a, [gs EXCEPT ![g + 1] =
                                    update_unread([gs[g + 1] EXCEPT !.feeds[f + 1] =
                                                      open_unread_feed(@)])])
                    ELSE Done(a, gs)
               [] OTHER -> Done(a, gs)

(***************************************************************************)
(* handle_items_key, from its second lock on: idxs is what visible_indices *)
(* returned under the first lock, and is not empty.                        *)
(***************************************************************************)
\* selected_item after: if app.selected_item >= items_len { ... }
ClampedItem(a, idxs) ==
    IF a.selected_item >= Len(idxs) THEN Len(idxs) - 1 ELSE a.selected_item

\* queue.retain(|i| i.id != id)
Retain(q, id) == SelectSeq(q, LAMBDA it : it.id # id)

handle_items_key(code, a, gs, idxs) ==
    LET a1 == [a EXCEPT !.selected_item = ClampedItem(a, idxs)]
        g == a.selected_group
        f == a.selected_feed
        idx == idxs[a1.selected_item + 1]
        InRange ==
            /\ g < Len(gs)
            /\ f < Len(gs[g + 1].feeds)
            /\ idx < Len(gs[g + 1].feeds[f + 1].items)
        item == gs[g + 1].feeds[f + 1].items[idx + 1]
        Put(it) == [gs EXCEPT ![g + 1].feeds[f + 1].items[idx + 1] = it]
        PutRead(b) ==
            LET gs1 == Put([item EXCEPT !.read = b])
            IN  [gs1 EXCEPT ![g + 1] = update_unread(gs1[g + 1])]
    IN  CASE code = "Up" ->
               IF a1.selected_item > 0
               THEN Done([a1 EXCEPT !.selected_item = @ - 1], gs) ELSE Done(a1, gs)
          [] code = "Down" ->
               IF a1.selected_item + 1 < Len(idxs)
               THEN Done([a1 EXCEPT !.selected_item = @ + 1], gs) ELSE Done(a1, gs)
          [] code = "Left" -> Done([a1 EXCEPT !.focus = "Feeds"], gs)
          [] code \in {"Enter", " ", "m", "M", "q", "Delete"} /\ ~InRange -> Panic(a1, gs)
          [] code = "Enter" /\ InRange -> Done(a1, gs)
          [] code = " " /\ InRange -> Done(a1, PutRead(~item.read))
          [] code = "m" /\ InRange -> Done(a1, PutRead(TRUE))
          [] code = "M" /\ InRange -> Done(a1, PutRead(FALSE))
          [] code = "q" /\ InRange ->
               LET it == [item EXCEPT !.queued = ~item.queued]
               IN  IF it.queued
                   THEN Done([a1 EXCEPT !.queue = Append(@, it)], Put(it))
                   ELSE Done([a1 EXCEPT !.queue = Retain(@, it.id)], Put(it))
          [] code = "Delete" /\ InRange ->
               IF item.queued
               THEN Done([a1 EXCEPT !.queue = Retain(@, item.id)],
                         Put([item EXCEPT !.queued = FALSE]))
               ELSE Done(a1, gs)
          [] OTHER -> Done(a1, gs)

(***************************************************************************)
(* handle_queue_key                                                        *)
(***************************************************************************)
\* feed.items.iter_mut().find(|it| it.id == id) for every id of the queue:
\* the first item of each id is opened, marked read and taken off the queue.
OpenQueuedIn(f, ids) ==
    [f EXCEPT !.items =
        [i \in DOMAIN f.items |->
            IF /\ f.items[i].id \in ids
               /\ \A j \in 1..(i - 1) : f.items[j].id # f.items[i].id
            THEN [f.items[i] EXCEPT !.read = TRUE, !.queued = FALSE]
            ELSE f.items[i]]]

OpenQueue(gs, ids) ==
    IF ids = {} THEN gs
    ELSE [n \in DOMAIN gs |->
            update_unread([gs[n] EXCEPT !.feeds =
                [k \in DOMAIN gs[n].feeds |-> OpenQueuedIn(gs[n].feeds[k], ids)]])]

\* Enter takes the lock; Esc and 'q' do not.
QueueKeyLocks(code) == code = "Enter"

handle_queue_key(code, a, gs) ==
    CASE code \in {"Esc", "q"} -> Done([a EXCEPT !.focus = "Items"], gs)
      [] code = "Enter" ->
           Done([a EXCEPT !.queue = <<>>, !.focus = "Items"],
                OpenQueue(gs, {a.queue[i].id : i \in DOMAIN a.queue}))
      [] OTHER -> Done(a, gs)

(***************************************************************************)
(* MergeSpec: one feed, created empty, merged with bounded payloads, its   *)
(* flags edited in between.                                                *)
(***************************************************************************)
\* obs: what the last step did.  A merge records its payload and whether the
\* step before it was a merge of the same payload.
NoObs == [op |-> "none"]

\* main() never calls net::refresh::spawn_refresh_manager: no manager task,
\* no trigger channel.
MgrNotSpawned ==
    [spawned |-> FALSE, pc |-> "none", chan |-> <<>>, waiting |-> <<>>, ticks |-> 0,
     elapsed |-> 0, run |-> 0, sent |-> 0, by |-> "none", last_tag |-> 0, further |-> 0]

\* The variables of Spec, at rest while one feed is exercised alone.
MainAtRest ==
    /\ groups = <<>>
    /\ lock = "free"
    /\ bg = [pc |-> "start", g |-> 0, f |-> 0, new_items |-> 0]
    /\ cycles = 0
    /\ status_tx = <<>>
    /\ disk = None
    /\ fgPc = "recv"
    /\ key = "none"
    /\ keys = 0
    /\ app = NewAppState("date")
    /\ indices = <<>>
    /\ edit = None
    /\ mgr = MgrNotSpawned

\* The (id, read, queued) of the items of the feed whose id no entry of the
\* payload gets.
Gone(f, parsed) ==
    LET ids == {gen_id(Some(parsed.entries[k].id),
                       IF Len(parsed.entries[k].links) > 0
                       THEN parsed.entries[k].links[1] ELSE "") : k \in DOMAIN parsed.entries}
    IN  {[id |-> f.items[i].id, read |-> f.items[i].read, queued |-> f.items[i].queued] :
            i \in {j \in DOMAIN f.items : f.items[j].id \notin ids}}

MergeInit ==
    /\ feed = NewFeed("u")
    /\ obs = NoObs
    /\ MainAtRest

MergeStep ==
    /\ \E parsed \in ParsedFeeds :
           /\ feed' = merge_items(feed, parsed)
           /\ obs' = [op |-> "merge", parsed |-> parsed,
                      again |-> (obs.op = "merge" /\ obs.parsed = parsed),
                      gone |-> Gone(feed, parsed)]
    /\ UNCHANGED mainVars

EditRead ==
    /\ \E idx \in DOMAIN feed.items :
           /\ feed' = toggle_read(feed, idx)
           /\ obs' = NoObs
    /\ UNCHANGED mainVars

EditQueued ==
    /\ \E idx \in DOMAIN feed.items :
           /\ feed' = toggle_queued(feed, idx)
           /\ obs' = NoObs
    /\ UNCHANGED mainVars

MergeNext == MergeStep \/ EditRead \/ EditQueued

MergeSpec == MergeInit /\ [][MergeNext]_vars

(***************************************************************************)
(* Claims about merge_items, checked under MergeSpec.                      *)
(***************************************************************************)
EntryIdentity(entry) ==
    gen_id(Some(entry.id), IF Len(entry.links) > 0 THEN entry.links[1] ELSE "")

\* The item carries the content of the entry.
HasContentOf(item, entry) ==
    /\ item.title = UnwrapOr(entry.title, "")
    /\ item.link = (IF Len(entry.links) > 0 THEN entry.links[1] ELSE "")
    /\ item.desc = UnwrapOr(entry.summary, "")
    /\ item.timestamp = UnwrapOr(OptOr(entry.published, entry.updated), 0)

\* Flag preservation across one merge from feed state pre to feed state post.
FlagsPreserved(pre, parsed, post) ==
    \A i \in DOMAIN pre.items : \A k \in DOMAIN parsed.entries :
        (/\ pre.items[i].read
         /\ pre.items[i].queued
         /\ EntryIdentity(parsed.entries[k]) = pre.items[i].id)
        => /\ \A j \in DOMAIN post.items :
                post.items[j].id = pre.items[i].id
                => post.items[j].read /\ post.items[j].queued
           /\ \E j \in DOMAIN post.items :
                /\ post.items[j].id = pre.items[i].id
                /\ HasContentOf(post.items[j], parsed.entries[k])

\* C1: an existing item with read = true and queued = true whose identity
\* recurs in the payload is still read and queued after merge_items, and
\* carries the content of the new payload entry.
C1_FlagPreservation ==
    [][obs'.op = "merge" => FlagsPreserved(feed, obs'.parsed, feed')]_vars

\* identities, order, flags and length of an items list
ItemsKey(items) ==
    [i \in DOMAIN items |-> <<items[i].id, items[i].read, items[i].queued>>]

\* C2: merging a payload and then merging the same payload again, with no
\* foreground edit in between, leaves the items with the same identities, the
\* same order, the same read/queued flags and the same length as after the
\* first merge.
C2_MergeIdempotent ==
    [][(obs'.op = "merge" /\ obs'.again) => ItemsKey(feed'.items) = ItemsKey(feed.items)]_vars

\* A second merge of the same payload has acted on a feed of two items with
\* different flags, one of them read and queued.
C2_Witness ==
    /\ obs.op = "merge"
    /\ obs.again
    /\ Len(feed.items) = 2
    /\ feed.items[1].read /\ feed.items[1].queued
    /\ ~feed.items[2].read

\* C15: an existing item whose identity no entry of the payload has is not
\* in the feed's items after merge_items, whatever its flags were.
C15_Disappearance ==
    [][obs'.op = "merge"
        => \A i \in DOMAIN feed.items :
             (\A k \in DOMAIN obs'.parsed.entries :
                 EntryIdentity(obs'.parsed.entries[k]) # feed.items[i].id)
             => \A j \in DOMAIN feed'.items : feed'.items[j].id # feed.items[i].id]_vars

\* C15 witness: the merge dropped an item that was read and queued, and
\* kept another.
C15_Witness ==
    /\ obs.op = "merge"
    /\ feed.items # <<>>
    /\ \E x \in obs.gone :
        /\ x.read
        /\ x.queued
        /\ \A j \in DOMAIN feed.items : feed.items[j].id # x.id

\* The items are in descending order of timestamp.
NewestFirst(items) ==
    \A i \in DOMAIN items : \A j \in DOMAIN items :
        i < j => items[i].timestamp >= items[j].timestamp

\* The one-to-one maps of 1..n onto itself.
Perms(n) == {q \in [1..n -> 1..n] : \A i, j \in 1..n : q[i] = q[j] => i = j}

\* The items are the payload's entries, one item per entry, and entries of
\* equal timestamp are in the payload's order.
StableOver(items, parsed) ==
    /\ Len(items) = Len(parsed.entries)
    /\ \E q \in Perms(Len(items)) :
        /\ \A k \in DOMAIN parsed.entries :
            /\ items[q[k]].id = EntryIdentity(parsed.entries[k])
            /\ HasContentOf(items[q[k]], parsed.entries[k])
        /\ \A k \in DOMAIN parsed.entries : \A m \in DOMAIN parsed.entries :
            (k < m /\ items[q[k]].timestamp = items[q[m]].timestamp) => q[k] < q[m]

\* C16: the feed's items are sorted by timestamp, newest first, after any
\* merge and in every state reached by merges and flag edits; entries of
\* equal timestamp keep their payload order.
C16_NewestFirst ==
    /\ [](NewestFirst(feed.items))
    /\ [][obs'.op = "merge" => StableOver(feed'.items, obs'.parsed)]_vars

\* C16 witness: a payload whose older entry came first has been merged, and
\* its newer entry is the first item.
C16_Witness ==
    /\ obs.op = "merge"
    /\ Len(obs.parsed.entries) = 2
    /\ Len(feed.items) = 2
    /\ feed.items[1].id = EntryIdentity(obs.parsed.entries[2])
    /\ feed.items[1].id # feed.items[2].id
    /\ feed.items[1].timestamp > feed.items[2].timestamp

\* The inputs of gen_id the claim about it ranges over.
RawIds == {None, Some("a"), Some("b"), Some("")}

Links == {"", "l1", "l2"}

\* Each item is the item of one entry of the payload, and its id is the
\* SHA-1 prefix of that entry's upstream id, whatever the entry's position.
IdentityByEntry(items, parsed) ==
    /\ Len(items) = Len(parsed.entries)
    /\ \E q \in Perms(Len(items)) :
        \A k \in DOMAIN parsed.entries :
            /\ items[q[k]].id = Sha1Hex16(parsed.entries[k].id)
            /\ HasContentOf(items[q[k]], parsed.entries[k])

\* C20: gen_id hashes the raw id when there is one and the link otherwise,
\* and after every merge, whatever the feed held before it and however many
\* merges came before, each entry's item has the identity of the entry's
\* upstream id, wherever the entry stood in the payload.
C20_IdentityPure ==
    /\ \A r \in RawIds : \A l \in Links :
        gen_id(r, l) = IF r # None THEN Sha1Hex16(r[1]) ELSE Sha1Hex16(l)
    /\ obs.op = "merge" => IdentityByEntry(feed.items, obs.parsed)

\* C20 witness: the entry with upstream id "a" stood second in the payload,
\* carries a link, and its item, first after the sort, has the identity of
\* "a" and the read flag of the item the feed already held under it.
C20_Witness ==
    /\ obs.op = "merge"
    /\ Len(obs.parsed.entries) = 2
    /\ obs.parsed.entries[1].id = "b"
    /\ obs.parsed.entries[2].id = "a"
    /\ obs.parsed.entries[2].links # <<>>
    /\ feed.items[1].id = Sha1Hex16("a")
    /\ feed.items[1].read
    /\ ~feed.items[2].read

(***************************************************************************)
(* VisitSpec: one feed visited by the refresh loop again and again, each   *)
(* visit a fetch (the response drawn from Responses) and then the loop     *)
(* body's use of what fetch_feed returned; the foreground edits flags      *)
(* between visits.                                                         *)
(***************************************************************************)
VisitInit ==
    /\ feed = NewFeed("u")
    /\ obs = NoObs
    /\ MainAtRest

VisitFetch ==
    /\ obs.op # "fetched"
    /\ \E resp \in Responses :
        obs' = [op |-> "fetched", resp |-> resp,
                fetched |-> fetch_feed(feed.url, feed.etag, feed.last_modified, resp)]
    /\ UNCHANGED feed
    /\ UNCHANGED mainVars

VisitApply ==
    /\ obs.op = "fetched"
    /\ feed' = apply_fetched(feed, obs.fetched)
    /\ obs' = [op |-> "applied",
               answered |-> IF obs.resp.sent THEN Some(obs.resp.status) ELSE None]
    /\ UNCHANGED mainVars

VisitEditRead ==
    /\ obs.op # "fetched"
    /\ \E idx \in DOMAIN feed.items : feed' = toggle_read(feed, idx)
    /\ obs' = NoObs
    /\ UNCHANGED mainVars

VisitEditQueued ==
    /\ obs.op # "fetched"
    /\ \E idx \in DOMAIN feed.items : feed' = toggle_queued(feed, idx)
    /\ obs' = NoObs
    /\ UNCHANGED mainVars

VisitNext == VisitFetch \/ VisitApply \/ VisitEditRead \/ VisitEditQueued

VisitSpec == VisitInit /\ [][VisitNext]_vars

(***************************************************************************)
(* Claims about the fetch and the loop body, checked under VisitSpec.      *)
(***************************************************************************)
\* StatusCode::is_success
IsSuccess(code) == code >= 200 /\ code < 300

UnexpectedStatus(resp) ==
    resp.sent /\ resp.status # NOT_MODIFIED /\ ~IsSuccess(resp.status)

\* The fetch failures of the specification: transport error, unexpected
\* status, parse error.
IsFetchFailure(resp) ==
    \/ ~resp.sent
    \/ UnexpectedStatus(resp)
    \/ resp.status # NOT_MODIFIED /\ resp.body.kind # "feed"

\* The step applies what the fetch of obs.resp returned.
AppliesFetch == obs.op = "fetched" /\ obs'.op = "applied"

\* C3: on any fetch failure (transport error, unexpected status, parse
\* error) the feed's items, title, etag and lastModified are what they were
\* before the fetch.
C3_FailureLeavesFeed ==
    [][(AppliesFetch /\ IsFetchFailure(obs.resp)) => feed' = feed]_vars

\* C4: a response whose status is neither 304 nor 2xx is a fetch failure
\* whatever its body holds: fetch_feed hands no payload to the merge, and the
\* feed's items, title and validators are unchanged by that response.
C4_UnexpectedStatusFails ==
    /\ []((obs.op = "fetched" /\ UnexpectedStatus(obs.resp)) => ~obs.fetched.ok)
    /\ [][(AppliesFetch /\ UnexpectedStatus(obs.resp)) => feed' = feed]_vars

\* C5: after a successful 2xx fetch whose response carries no ETag (no
\* Last-Modified) header is applied, a previously cached etag
\* (lastModified) has not been replaced by absent.
C5_AbsentValidatorKept ==
    [][(/\ AppliesFetch
        /\ obs.resp.sent
        /\ IsSuccess(obs.resp.status)
        /\ obs.fetched.ok)
       => /\ (obs.resp.etag = None /\ feed.etag # None) => feed'.etag # None
          /\ (obs.resp.last_modified = None /\ feed.last_modified # None)
                => feed'.last_modified # None]_vars

\* C6, as stated: on 304 the payload is None and each returned validator is
\* the response's value when the response carries the header, else the
\* cached value.
C6_NotModifiedAsStated ==
    (obs.op = "fetched" /\ obs.resp.sent /\ obs.resp.status = NOT_MODIFIED)
    => /\ obs.fetched.ok
       /\ obs.fetched.feed = None
       /\ obs.fetched.etag =
            (IF obs.resp.etag # None THEN Some(obs.resp.etag[1].text) ELSE feed.etag)
       /\ obs.fetched.last =
            (IF obs.resp.last_modified # None THEN Some(obs.resp.last_modified[1].text)
             ELSE feed.last_modified)

\* The header carries a value that converts to a string.
CarriesString(header) == header # None /\ header[1].visible_ascii

\* C6, amended: on 304 the payload is None and each returned validator is the
\* response's value when the response carries one that is visible ASCII, and
\* otherwise the cached value; a cached validator is never returned as absent.
C6_NotModifiedKeepsValidators ==
    (obs.op = "fetched" /\ obs.resp.sent /\ obs.resp.status = NOT_MODIFIED)
    => /\ obs.fetched.ok
       /\ obs.fetched.feed = None
       /\ obs.fetched.etag =
            (IF CarriesString(obs.resp.etag) THEN Some(obs.resp.etag[1].text) ELSE feed.etag)
       /\ obs.fetched.last =
            (IF CarriesString(obs.resp.last_modified)
             THEN Some(obs.resp.last_modified[1].text) ELSE feed.last_modified)
       /\ feed.etag # None => obs.fetched.etag # None
       /\ feed.last_modified # None => obs.fetched.last # None

\* A 304 that carries no ETag and another Last-Modified has been fetched for
\* a feed with both validators cached.
C6_Witness ==
    /\ obs.op = "fetched"
    /\ obs.resp.sent
    /\ obs.resp.status = NOT_MODIFIED
    /\ obs.resp.etag = None
    /\ feed.etag = Some("e1")
    /\ feed.last_modified = Some("m1")
    /\ obs.resp.last_modified = Some(HeaderValue("m2", TRUE))
    /\ obs.fetched.etag = Some("e1")
    /\ obs.fetched.last = Some("m2")

\* C19: a fetch answered 304 leaves the feed's items as they were before
\* the fetch: identities, order, content and flags.
C19_NotModifiedKeepsItems ==
    [][(AppliesFetch /\ obs.resp.sent /\ obs.resp.status = NOT_MODIFIED)
        => feed'.items = feed.items]_vars

\* C19 witness: a 304 has been applied to a feed with two items, one of them
\* read and queued.
C19_Witness ==
    /\ obs.op = "applied"
    /\ obs.answered = Some(NOT_MODIFIED)
    /\ Len(feed.items) = 2
    /\ feed.items[1].read
    /\ feed.items[1].queued
    /\ ~feed.items[2].read

(***************************************************************************)
(* Spec: the refresh thread of main() and the foreground loop of run_app   *)
(* over the store behind its mutex.                                        *)
(***************************************************************************)
\* Mutex::lock returns once no other thread holds the mutex.
CanLockAlways(l) == TRUE

CanLock(l) == l = "free"

\* The process lives until run_app returns or the main thread panics.
Running == fgPc \notin {"done", "error", "panicked"}

\* The responses a cycle's fetch draws from.
CycleFeeds == VisitFeeds \cup {[title |-> None, entries |-> <<EntryA1, EntryA1>>]}

CycleResponses ==
    {SendFailed} \cup
    {[sent |-> TRUE, status |-> st, etag |-> e, last_modified |-> None, body |-> BodyFeed(p)] :
        st \in {200, NOT_MODIFIED}, e \in {None, Some(HeaderValue("e1", TRUE))},
        p \in CycleFeeds}

\* The body of the loop over the feeds, for one feed and the response its
\* fetch receives: the feed it leaves and what it adds to new_items.
visit_feed(fd, resp) ==
    LET prev == Len(fd.items)
        after == apply_fetched(fd, fetch_feed(fd.url, fd.etag, fd.last_modified, resp))
    IN  [feed |-> after,
         added |-> IF Len(after.items) > prev THEN Len(after.items) - prev ELSE 0]

\* A file holding a part of the JSON of the store.
Unparsable(gs) == <<gs, "truncated">>

\* A store load_db reads back: what a previous session saved after its cycle
\* merged the payload into the one feed of the one group.
StoredGroup(entries) ==
    update_unread(
        [NewGroup("g") EXCEPT !.feeds =
            <<merge_items(NewFeed("u"), [title |-> None, entries |-> entries])>>])

\* The same, saved after the user queued the feed's first item.
StoredQueued(entries) ==
    [StoredGroup(entries) EXCEPT !.feeds[1].items[1].queued = TRUE]

InitialStores ==
    {<<>>, <<StoredGroup(<<EntryB2, EntryA1>>)>>, <<StoredGroup(<<EntryA1, EntryA1>>)>>,
     <<StoredQueued(<<EntryB2, EntryA1>>)>>}

\* The database file at start: none, the file a session saved, or what a
\* failed write left of it, which does not parse.
InitialFiles ==
    {None} \cup {Some(st) : st \in InitialStores \ {<<>>}}
           \cup {Unparsable(<<StoredGroup(<<EntryB2, EntryA1>>)>>)}

\* load_db: Ok(empty) when there is no file, Ok(groups) when the file parses,
\* Err otherwise
load_db(file) ==
    IF file = None THEN [ok |-> TRUE, groups |-> <<>>]
    ELSE IF Len(file) = 1 THEN [ok |-> TRUE, groups |-> file[1]]
    ELSE [ok |-> FALSE]

\* Result::unwrap_or_default on load_db's result
unwrap_or_default(r) == IF r.ok THEN r.groups ELSE <<>>

Init ==
    /\ feed = NewFeed("u")
    /\ disk \in InitialFiles
    /\ obs = [op |-> "load", ok |-> load_db(disk).ok]
    /\ groups = unwrap_or_default(load_db(disk))
    /\ lock = "free"
    /\ bg = [pc |-> "start", g |-> 0, f |-> 0, new_items |-> 0]
    /\ cycles = 0
    /\ status_tx = <<>>
    /\ fgPc = "recv"
    /\ key = "none"
    /\ keys = 0
    /\ \E order \in SortOrders : app = NewAppState(order)
    /\ indices = <<>>
    /\ edit = None
    /\ mgr = MgrNotSpawned

(***************************************************************************)
(* The refresh thread (main.rs).                                           *)
(***************************************************************************)
\* let mut guard = groups_clone.lock().unwrap(), with new_items = 0
BgLock ==
    /\ Running
    /\ bg.pc = "start"
    /\ cycles < MaxCycles
    /\ CanLock(lock)
    /\ lock' = "bg"
    /\ bg' = [pc |-> "visit", g |-> 1, f |-> 1, new_items |-> 0]
    /\ cycles' = cycles + 1
    /\ UNCHANGED <<pureVars, mgr, groups, status_tx, disk, fgVars>>

\* A cycle that a failed fetch ends: the error leaves the loops.
BgVisitFeedAborting ==
    /\ Running
    /\ bg.pc = "visit"
    /\ bg.g <= Len(groups)
    /\ bg.f <= Len(groups[bg.g].feeds)
    /\ \E resp \in CycleResponses :
        LET fd == groups[bg.g].feeds[bg.f]
            v == visit_feed(fd, resp)
        IN  /\ groups' = [groups EXCEPT ![bg.g].feeds[bg.f] = v.feed]
            /\ bg' = IF fetch_feed(fd.url, fd.etag, fd.last_modified, resp).ok
                     THEN [bg EXCEPT !.f = @ + 1, !.new_items = @ + v.added]
                     ELSE [bg EXCEPT !.g = Len(groups) + 1, !.f = 1]
    /\ edit' = (IF edit # None /\ edit[1].g = bg.g /\ edit[1].f = bg.f THEN None ELSE edit)
    /\ UNCHANGED <<pureVars, mgr, lock, cycles, status_tx, disk, fgPc, key, keys, indices, app>>

\* one feed: fetch_feed(...).await, then the validators and merge_items
BgVisitFeed ==
    /\ Running
    /\ bg.pc = "visit"
    /\ bg.g <= Len(groups)
    /\ bg.f <= Len(groups[bg.g].feeds)
    /\ \E resp \in CycleResponses :
        LET v == visit_feed(groups[bg.g].feeds[bg.f], resp)
        IN  /\ groups' = [groups EXCEPT ![bg.g].feeds[bg.f] = v.feed]
            /\ bg' = [bg EXCEPT !.f = @ + 1, !.new_items = @ + v.added]
    /\ edit' = (IF edit # None /\ edit[1].g = bg.g /\ edit[1].f = bg.f THEN None ELSE edit)
    /\ UNCHANGED <<pureVars, mgr, lock, cycles, status_tx, disk, fgPc, key, keys, indices, app>>

\* A cycle that gives the lock up after each group.
BgUpdateUnreadUnlocking ==
    /\ Running
    /\ bg.pc = "visit"
    /\ bg.g <= Len(groups)
    /\ bg.f > Len(groups[bg.g].feeds)
    /\ groups' = [groups EXCEPT ![bg.g] = update_unread(groups[bg.g])]
    /\ bg' = [bg EXCEPT !.g = @ + 1, !.f = 1]
    /\ lock' = "free"
    /\ UNCHANGED <<pureVars, mgr, cycles, status_tx, disk, fgVars>>

\* group.update_unread(), after the group's last feed
BgUpdateUnread ==
    /\ Running
    /\ bg.pc = "visit"
    /\ bg.g <= Len(groups)
    /\ bg.f > Len(groups[bg.g].feeds)
    /\ groups' = [groups EXCEPT ![bg.g] = update_unread(groups[bg.g])]
    /\ bg' = [bg EXCEPT !.g = @ + 1, !.f = 1]
    /\ UNCHANGED <<pureVars, mgr, lock, cycles, status_tx, disk, fgVars>>

\* A cycle that ends with the guard leaked: the mutex stays locked.
BgUnlockLeaking ==
    /\ Running
    /\ bg.pc = "visit"
    /\ bg.g > Len(groups)
    /\ bg' = [bg EXCEPT !.pc = "send"]
    /\ UNCHANGED <<pureVars, mgr, groups, lock, cycles, status_tx, disk, fgVars>>

\* the guard is dropped at the end of the async block
BgUnlock ==
    /\ Running
    /\ bg.pc = "visit"
    /\ bg.g > Len(groups)
    /\ lock' = "free"
    /\ bg' = [bg EXCEPT !.pc = "send"]
    /\ UNCHANGED <<pureVars, mgr, groups, cycles, status_tx, disk, fgVars>>

\* A refresh thread that reports only the cycles that brought new items.
BgSendIfNew ==
    /\ Running
    /\ bg.pc = "send"
    /\ status_tx' = IF bg.new_items > 0
                    THEN Append(status_tx, [time |-> cycles, new_items |-> bg.new_items])
                    ELSE status_tx
    /\ bg' = [pc |-> "sleep", g |-> 0, f |-> 0, new_items |-> 0]
    /\ UNCHANGED <<pureVars, mgr, groups, lock, cycles, disk, fgVars>>

\* let _ = tx.send((Utc::now(), new_items)); the cycle's number stands for the time
BgSend ==
    /\ Running
    /\ bg.pc = "send"
    /\ status_tx' = Append(status_tx, [time |-> cycles, new_items |-> bg.new_items])
    /\ bg' = [pc |-> "sleep", g |-> 0, f |-> 0, new_items |-> 0]
    /\ UNCHANGED <<pureVars, mgr, groups, lock, cycles, disk, fgVars>>

\* thread::sleep(Duration::from_secs(interval)) returns
BgWake ==
    /\ Running
    /\ bg.pc = "sleep"
    /\ bg' = [bg EXCEPT !.pc = "start"]
    /\ UNCHANGED <<pureVars, mgr, groups, lock, cycles, status_tx, disk, fgVars>>

(***************************************************************************)
(* The foreground loop (run_app).  show_help and the drawing itself are    *)
(* rendering and are left out; ui() only reads the store under the lock.   *)
(***************************************************************************)
Keys ==
    {"Up", "Down", "Left", "Right", "Enter", "Esc", "Delete", "Tab", "BackTab", "CtrlF",
     "a", "d", "r", "A", "O", "q", "Q", "u", "m", "M", " "}

\* The keys run_app handles itself, before the pane's handler.
GlobalKeys(a) ==
    {"Q", "u", "Tab", "BackTab", "CtrlF"} \cup
    (IF a.focus \notin {"Items", "Queue"} THEN {"q"} ELSE {})

\* if let Ok((time, new)) = app.status_rx.try_recv() { ... }
FgRecv ==
    /\ fgPc = "recv"
    /\ IF status_tx # <<>>
       THEN /\ app' = [app EXCEPT !.status = Some(Head(status_tx))]
            /\ status_tx' = Tail(status_tx)
       ELSE UNCHANGED <<app, status_tx>>
    /\ fgPc' = "draw"
    /\ UNCHANGED <<pureVars, mgr, groups, lock, bgVars, disk, key, keys, indices, edit>>

\* terminal.draw(|f| ui(f, app)): ui locks the store, reads it, unlocks
FgDraw ==
    /\ fgPc = "draw"
    /\ CanLock(lock)
    /\ fgPc' = "poll"
    /\ UNCHANGED <<pureVars, mgr, groups, lock, bgVars, status_tx, disk, key, keys, indices, edit, app>>

\* event::poll(timeout) returns false
FgPollTimeout ==
    /\ fgPc = "poll"
    /\ fgPc' = "recv"
    /\ UNCHANGED <<pureVars, mgr, groups, lock, bgVars, status_tx, disk, key, keys, indices, edit, app>>

\* 'Q', 'u', Tab, BackTab
FgKeyGlobal ==
    /\ fgPc = "poll"
    /\ keys < MaxKeys
    /\ \E k \in {"Q", "u", "Tab", "BackTab"} :
        app' = CASE k = "Q" -> [app EXCEPT !.focus = "Queue"]
                 [] k = "u" -> [app EXCEPT !.unread_only = ~@, !.selected_item = 0]
                 [] k = "Tab" ->
                      [app EXCEPT !.focus =
                          CASE @ = "Groups" -> "Feeds" [] @ = "Feeds" -> "Items"
                            [] @ = "Items" -> "Preview" [] @ = "Preview" -> "Groups"
                            [] @ = "Queue" -> "Queue"]
                 [] k = "BackTab" ->
                      [app EXCEPT !.focus =
                          CASE @ = "Groups" -> "Preview" [] @ = "Feeds" -> "Groups"
                            [] @ = "Items" -> "Feeds" [] @ = "Preview" -> "Items"
                            [] @ = "Queue" -> "Queue"]
    /\ keys' = keys + 1
    /\ fgPc' = "recv"
    /\ UNCHANGED <<pureVars, mgr, groups, lock, bgVars, status_tx, disk, key, indices, edit>>

\* Ctrl-f: prompt("Search:"), with no lock held
FgKeySearch ==
    /\ fgPc = "poll"
    /\ keys < MaxKeys
    /\ \E input \in PromptInputs :
        app' = [app EXCEPT !.search = UnwrapOr(input, ""), !.selected_item = 0]
    /\ keys' = keys + 1
    /\ fgPc' = "recv"
    /\ UNCHANGED <<pureVars, mgr, groups, lock, bgVars, status_tx, disk, key, indices, edit>>

\* 'q' outside the Items and Queue panes
FgKeyQuit ==
    /\ fgPc = "poll"
    /\ keys < MaxKeys
    /\ "q" \in GlobalKeys(app)
    /\ keys' = keys + 1
    /\ fgPc' = "quit"
    /\ UNCHANGED <<pureVars, mgr, groups, lock, bgVars, status_tx, disk, key, indices, edit, app>>

\* any other key goes to the handler of the focused pane; Preview has none
FgKeyPane ==
    /\ fgPc = "poll"
    /\ keys < MaxKeys
    /\ \E k \in Keys \ GlobalKeys(app) :
        IF app.focus = "Preview"
        THEN fgPc' = "recv" /\ key' = "none"
        ELSE fgPc' = "handler" /\ key' = k
    /\ keys' = keys + 1
    /\ UNCHANGED <<pureVars, mgr, groups, lock, bgVars, status_tx, disk, indices, edit, app>>

\* The handler returns (or panics) and its guard is dropped.
Return(r) ==
    /\ groups' = r.groups
    /\ app' = r.app
    /\ lock' = "free"
    /\ fgPc' = (IF r.panic THEN "panicked" ELSE "recv")
    /\ key' = "none"
    /\ indices' = <<>>

\* The handler has locked the store and waits for the prompt's answer.
WaitForPrompt ==
    /\ lock' = "fg"
    /\ fgPc' = "prompt"
    /\ UNCHANGED <<groups, app, key, indices, edit>>

\* A change of the store other than one item's flag edit ends the watch on
\* the last flag edit.
DropEdit(r) == edit' = (IF r.groups = groups THEN edit ELSE None)

FgGroupsKey ==
    /\ fgPc = "handler"
    /\ app.focus = "Groups"
    /\ CanLock(lock)
    /\ IF GroupsKeyPrompts(key, app, groups)
       THEN WaitForPrompt
       ELSE LET r == handle_groups_key(key, app, groups, None)
            IN  Return(r) /\ DropEdit(r)
    /\ UNCHANGED <<pureVars, mgr, bgVars, status_tx, disk, keys>>

FgGroupsAnswer ==
    /\ fgPc = "prompt"
    /\ app.focus = "Groups"
    /\ \E input \in PromptInputs :
        LET r == handle_groups_key(key, app, groups, input)
        IN  Return(r) /\ DropEdit(r)
    /\ UNCHANGED <<pureVars, mgr, bgVars, status_tx, disk, keys>>

FgFeedsKey ==
    /\ fgPc = "handler"
    /\ app.focus = "Feeds"
    /\ CanLock(lock)
    /\ IF FeedsKeyPrompts(key, app, groups)
       THEN WaitForPrompt
       ELSE LET r == handle_feeds_key(key, app, groups, None)
            IN  Return(r) /\ DropEdit(r)
    /\ UNCHANGED <<pureVars, mgr, bgVars, status_tx, disk, keys>>

FgFeedsAnswer ==
    /\ fgPc = "prompt"
    /\ app.focus = "Feeds"
    /\ \E input \in PromptInputs :
        LET r == handle_feeds_key(key, app, groups, input)
        IN  Return(r) /\ DropEdit(r)
    /\ UNCHANGED <<pureVars, mgr, bgVars, status_tx, disk, keys>>

\* handle_items_key up to its own lock: visible_indices under a first lock
FgItemsVisible ==
    /\ fgPc = "handler"
    /\ app.focus = "Items"
    /\ CanLock(lock)
    /\ LET v == visible_indices(app, groups)
       IN  /\ indices' = v.indices
           /\ fgPc' = (IF v.panic THEN "panicked"
                       ELSE IF v.indices = <<>> THEN "recv" ELSE "items")
           /\ key' = (IF v.panic \/ v.indices = <<>> THEN "none" ELSE key)
    /\ UNCHANGED <<pureVars, mgr, groups, lock, bgVars, status_tx, disk, keys, edit, app>>

\* The flag edit the key makes on the item it acts on, if it makes one.
EditOf(code, a, gs, idxs, after) ==
    LET g == a.selected_group + 1
        f == a.selected_feed + 1
        i == idxs[ClampedItem(a, idxs) + 1] + 1
    IN  IF after = gs THEN None
        ELSE IF code \in {" ", "m", "M"}
             THEN Some([g |-> g, f |-> f, id |-> after[g].feeds[f].items[i].id,
                        flag |-> "read", value |-> after[g].feeds[f].items[i].read])
             ELSE Some([g |-> g, f |-> f, id |-> after[g].feeds[f].items[i].id,
                        flag |-> "queued", value |-> after[g].feeds[f].items[i].queued])

\* handle_items_key from its second lock on
FgItemsKey ==
    /\ fgPc = "items"
    /\ CanLock(lock)
    /\ LET r == handle_items_key(key, app, groups, indices)
       IN  /\ Return(r)
           /\ edit' = (IF r.groups = groups THEN edit
                       ELSE EditOf(key, app, groups, indices, r.groups))
    /\ UNCHANGED <<pureVars, mgr, bgVars, status_tx, disk, keys>>

FgQueueKey ==
    /\ fgPc = "handler"
    /\ app.focus = "Queue"
    /\ QueueKeyLocks(key) => CanLock(lock)
    /\ LET r == handle_queue_key(key, app, groups)
       IN  /\ groups' = r.groups
           /\ app' = r.app
           /\ DropEdit(r)
    /\ fgPc' = "recv"
    /\ key' = "none"
    /\ UNCHANGED <<pureVars, mgr, lock, bgVars, status_tx, disk, keys, indices>>

\* What the quit path can meet: both saves succeed; save_db fails before it
\* writes (no data dir, create_dir_all, serialization); fs::write fails after
\* it has truncated the file; save_db succeeds and config.save fails.
SaveOutcomes == {"saved", "save_db failed", "write failed", "config.save failed"}

\* The file after fs::write failed: a part of the JSON of the store.
Truncated(gs) == Unparsable(gs)

\* The database file after save_db(&groups) with the given outcome.
save_db(file, gs, outcome) ==
    CASE outcome = "save_db failed" -> file
      [] outcome = "write failed" -> Truncated(gs)
      [] OTHER -> Some(gs)

\* A quit that discards the results of the saves.
FgQuitIgnoringErrors ==
    /\ fgPc = "quit"
    /\ CanLock(lock)
    /\ \E outcome \in SaveOutcomes :
        /\ disk' = save_db(disk, groups, outcome)
        /\ fgPc' = "done"
    /\ UNCHANGED <<pureVars, mgr, groups, lock, bgVars, status_tx, key, keys, indices, edit, app>>

\* A quit that saves what it finds without taking the lock.
FgQuitUnlocked ==
    /\ fgPc = "quit"
    /\ \E outcome \in SaveOutcomes :
        /\ disk' = save_db(disk, groups, outcome)
        /\ fgPc' = (IF outcome = "saved" THEN "done" ELSE "error")
    /\ UNCHANGED <<pureVars, mgr, groups, lock, bgVars, status_tx, key, keys, indices, edit, app>>

\* lock, data::save_db(&groups)?, app.config.save()?, break
FgQuit ==
    /\ fgPc = "quit"
    /\ CanLock(lock)
    /\ \E outcome \in SaveOutcomes :
        /\ disk' = save_db(disk, groups, outcome)
        /\ fgPc' = (IF outcome = "saved" THEN "done" ELSE "error")
    /\ UNCHANGED <<pureVars, mgr, groups, lock, bgVars, status_tx, key, keys, indices, edit, app>>

Next ==
    \/ BgLock \/ BgVisitFeed \/ BgUpdateUnread \/ BgUnlock \/ BgSend \/ BgWake
    \/ FgRecv \/ FgDraw \/ FgPollTimeout
    \/ FgKeyGlobal \/ FgKeySearch \/ FgKeyQuit \/ FgKeyPane
    \/ FgGroupsKey \/ FgGroupsAnswer \/ FgFeedsKey \/ FgFeedsAnswer
    \/ FgItemsVisible \/ FgItemsKey \/ FgQueueKey \/ FgQuit

Spec == Init /\ [][Next]_vars

(***************************************************************************)
(* Claims about the store under the lock, checked under Spec.              *)
(***************************************************************************)
\* The items of the group that are not read, as (feed, item) positions.
UnreadPositions(group) ==
    UNION {{<<k, i>> : i \in {j \in DOMAIN group.feeds[k].items : ~group.feeds[k].items[j].read}} :
              k \in DOMAIN group.feeds}

\* C7: whenever the store lock is not held, every group's unread_count equals
\* the number of items with read = false across the feeds of the group.
C7_UnreadCountExact ==
    lock = "free" =>
        \A n \in DOMAIN groups : groups[n].unread_count = Cardinality(UnreadPositions(groups[n]))

\* C7 witness: the lock is free after a cycle merged a payload and after the
\* foreground changed a read flag, and a group has a positive count.
C7_Witness ==
    /\ lock = "free"
    /\ bg.pc = "sleep"
    /\ edit # None
    /\ edit[1].flag = "read"
    /\ \E n \in DOMAIN groups : groups[n].unread_count > 0

\* The foreground step reads or writes the store: ui() drawing, a handler
\* taking the lock, the answer to a prompt shown under the lock, the save
\* on quit.
FgStoreAccess ==
    /\ fgPc' # fgPc
    /\ fgPc \notin {"recv", "poll"}
    /\ ~(fgPc = "handler" /\ app.focus = "Queue" /\ ~QueueKeyLocks(key))

\* The refresh thread is inside its lock-holding section.
BgInSection == bg.pc = "visit"

\* The foreground is inside a lock-holding section that spans steps.
FgInSection == fgPc = "prompt"

\* C8: every change of the store is made by the holder of the lock, the
\* refresh thread and the foreground are never inside a lock-holding section
\* at the same time, and no foreground access to the store falls inside a
\* cycle's section.
C8_SingleLock ==
    /\ [](~(BgInSection /\ FgInSection))
    /\ [](BgInSection => lock = "bg")
    /\ [](FgInSection => lock = "fg")
    /\ [][BgInSection => ~FgStoreAccess]_vars
    /\ [][(FgInSection /\ groups' # groups) => fgPc' # fgPc]_vars
    /\ [][(lock = "free" /\ lock' = "free" /\ groups' # groups) => fgPc' # fgPc]_vars

\* C8 witness: a key's handler waits for the lock while the cycle, holding
\* it, has merged a payload into the first feed.
C8_Witness ==
    /\ BgInSection
    /\ bg.f = 2
    /\ fgPc = "handler"
    /\ app.focus = "Feeds"
    /\ key = "r"
    /\ groups[bg.g].feeds[1].etag # None

\* C9: the refresh thread holds the lock from before the first feed until
\* the last group's unread count is recomputed, and no foreground read or
\* mutation of the store happens in between.
C9_LockHeldForCycle ==
    /\ [](bg.pc = "visit" => lock = "bg")
    /\ [][(lock = "bg" /\ lock' # "bg") => (bg.g > Len(groups) /\ bg'.pc = "send")]_vars
    /\ [][(bg.pc = "visit" /\ bg' = bg) => (groups' = groups /\ ~FgStoreAccess)]_vars

\* C9 witness: the cycle is between the two feeds of a group, the first
\* merged, while the foreground waits to draw.
C9_Witness ==
    /\ bg.pc = "visit"
    /\ bg.g <= Len(groups)
    /\ bg.f = 2
    /\ Len(groups[bg.g].feeds) >= 2
    /\ groups[bg.g].feeds[1].items # <<>>
    /\ fgPc = "draw"

\* The flag the edit set, on an item.
FlagOf(item, flag) == IF flag = "read" THEN item.read ELSE item.queued

\* The step is the cycle's visit of the feed of the last flag edit, its
\* fetch received resp, and the payload holds the edited item's identity.
MergesEdited(resp) ==
    /\ edit # None
    /\ bg.pc = "visit"
    /\ bg.g <= Len(groups)
    /\ bg.f <= Len(groups[bg.g].feeds)
    /\ bg'.f = bg.f + 1
    /\ edit[1].g = bg.g
    /\ edit[1].f = bg.f
    /\ LET pre == groups[bg.g].feeds[bg.f]
           fetched == fetch_feed(pre.url, pre.etag, pre.last_modified, resp)
       IN  /\ fetched.ok
           /\ fetched.feed # None
           /\ \E k \in DOMAIN fetched.feed[1].entries :
                EntryIdentity(fetched.feed[1].entries[k]) = edit[1].id
           /\ groups'[bg.g].feeds[bg.f] = visit_feed(pre, resp).feed

\* C10: a flag edit the foreground completed before the cycle took the lock
\* is seen by the cycle's merge: when the edited item's identity recurs in
\* the payload, the item carries the edited flag value after the merge.
C10_EditSeenByMerge ==
    [][\A resp \in CycleResponses :
          MergesEdited(resp) =>
              \A i \in DOMAIN groups'[bg.g].feeds[bg.f].items :
                  groups'[bg.g].feeds[bg.f].items[i].id = edit[1].id
                  => FlagOf(groups'[bg.g].feeds[bg.f].items[i], edit[1].flag) = edit[1].value]_vars

\* The store has the same groups and feeds, in the same order, after the step.
SameShape ==
    /\ Len(groups') = Len(groups)
    /\ \A n \in DOMAIN groups :
        /\ Len(groups'[n].feeds) = Len(groups[n].feeds)
        /\ \A k \in DOMAIN groups[n].feeds : groups'[n].feeds[k].url = groups[n].feeds[k].url

\* The step visits the feed under the cursor and moves to the next feed of
\* the group.
VisitsFeed ==
    /\ bg.g <= Len(groups)
    /\ bg.f <= Len(groups[bg.g].feeds)
    /\ bg'.pc = "visit"
    /\ bg'.g = bg.g
    /\ bg'.f = bg.f + 1

\* The step follows the last feed of the group: it recomputes the group's
\* unread count and moves to the first feed of the next group.
EndsGroup ==
    /\ bg.g <= Len(groups)
    /\ bg.f = Len(groups[bg.g].feeds) + 1
    /\ bg'.pc = "visit"
    /\ bg'.g = bg.g + 1
    /\ bg'.f = 1
    /\ groups'[bg.g].feeds = groups[bg.g].feeds
    /\ groups'[bg.g].unread_count = Cardinality(UnreadPositions(groups'[bg.g]))

\* The step follows the last group: the cycle is over.
EndsCycle ==
    /\ bg.g = Len(groups) + 1
    /\ bg'.pc = "send"

\* C11: a cycle starts at the first feed of the first group and, whatever a
\* feed's fetch returns, goes on to the next feed: every feed of every group
\* is visited once, in store order, the unread count of a group is recomputed
\* after its last feed, and the cycle ends only after the last group.
C11_EveryFeedVisited ==
    /\ [][(bg.pc # "visit" /\ bg'.pc = "visit") => (bg'.g = 1 /\ bg'.f = 1)]_vars
    /\ [][(bg.pc = "visit" /\ bg' # bg)
            => (SameShape /\ (VisitsFeed \/ EndsGroup \/ EndsCycle))]_vars
    /\ [][(bg.pc = "visit" /\ bg' = bg) => SameShape]_vars
    /\ [][\A resp \in CycleResponses :
            (/\ bg.pc = "visit"
             /\ bg' # bg
             /\ bg.g <= Len(groups)
             /\ bg.f <= Len(groups[bg.g].feeds)
             /\ ~fetch_feed(groups[bg.g].feeds[bg.f].url, groups[bg.g].feeds[bg.f].etag,
                            groups[bg.g].feeds[bg.f].last_modified, resp).ok)
            => VisitsFeed]_vars

\* C11 witness: the cycle has reached the second group after visiting a feed
\* of the first group that is still as it was created (its fetch failed,
\* answered 304 or brought nothing), and the first group's count is exact.
C11_Witness ==
    /\ bg.pc = "visit"
    /\ bg.g = 2
    /\ Len(groups) >= 2
    /\ Len(groups[1].feeds) >= 1
    /\ groups[1].feeds[1].items # <<>>
    /\ groups[1].feeds[1].etag = None
    /\ groups[1].unread_count = Cardinality(UnreadPositions(groups[1]))

(***************************************************************************)
(* ManagerSpec: net::refresh::spawn_refresh_manager, the task it spawns    *)
(* and the senders of the handle it returns.  No code of the repository    *)
(* calls it or sends on the handle; the senders here use what a            *)
(* tokio::sync::mpsc::Sender offers: try_send, and send().await.           *)
(***************************************************************************)
\* mpsc::channel::<()>(1)
TriggerCapacity == 1

\* The cycle a trigger is sent in: a running cycle's number, 0 between cycles.
TriggerTag == IF mgr.pc = "refresh" THEN mgr.run ELSE 0

ManagerInit ==
    /\ feed = NewFeed("u")
    /\ obs = NoObs
    /\ groups \in InitialStores
    /\ lock = "free"
    /\ bg = [pc |-> "start", g |-> 0, f |-> 0, new_items |-> 0]
    /\ cycles = 0
    /\ status_tx = <<>>
    /\ disk = None
    /\ fgPc = "recv"
    /\ key = "none"
    /\ keys = 0
    /\ app = NewAppState("date")
    /\ indices = <<>>
    /\ edit = None
    /\ mgr = [MgrNotSpawned EXCEPT !.spawned = TRUE, !.pc = "select", !.ticks = 1]

\* time::interval(900 s): another tick comes due, whatever the task is doing
MgrIntervalElapses ==
    /\ mgr.spawned
    /\ mgr.elapsed < MaxTicks
    /\ mgr' = [mgr EXCEPT !.elapsed = @ + 1, !.ticks = @ + 1]
    /\ UNCHANGED <<pureVars, groups, lock, bgVars, status_tx, disk, fgVars>>

\* refresh_all begins: db.lock().await
StartRefresh ==
    /\ CanLock(lock)
    /\ lock' = "bg"
    /\ bg' = [pc |-> "visit", g |-> 1, f |-> 1, new_items |-> 0]

\* select! takes _ = ticker.tick()
MgrTick ==
    /\ mgr.pc = "select"
    /\ mgr.ticks > 0
    /\ StartRefresh
    /\ mgr' = [mgr EXCEPT !.pc = "refresh", !.ticks = @ - 1, !.run = @ + 1, !.by = "tick"]
    /\ UNCHANGED <<pureVars, groups, cycles, status_tx, disk, fgVars>>

\* select! takes Some(_) = rx.recv(); the slot it frees goes to the sender
\* that has waited longest
MgrRecv ==
    /\ mgr.pc = "select"
    /\ mgr.chan # <<>>
    /\ StartRefresh
    /\ LET tag == Head(mgr.chan)
       IN  mgr' = [mgr EXCEPT
                    !.pc = "refresh", !.run = @ + 1, !.by = "trigger",
                    !.chan = IF mgr.waiting = <<>> THEN Tail(mgr.chan)
                             ELSE Append(Tail(mgr.chan), Head(mgr.waiting)),
                    !.waiting = IF mgr.waiting = <<>> THEN <<>> ELSE Tail(mgr.waiting),
                    !.last_tag = tag,
                    !.further = IF tag = 0 THEN 0 ELSE IF tag = mgr.last_tag THEN @ + 1 ELSE 1]
    /\ UNCHANGED <<pureVars, groups, cycles, status_tx, disk, fgVars>>

\* refresh_all: one feed
MgrVisitFeed ==
    /\ mgr.pc = "refresh"
    /\ bg.g <= Len(groups)
    /\ bg.f <= Len(groups[bg.g].feeds)
    /\ \E resp \in CycleResponses :
        LET fd == groups[bg.g].feeds[bg.f]
        IN  groups' = [groups EXCEPT ![bg.g].feeds[bg.f] =
                          apply_fetched(fd, fetch_feed(fd.url, fd.etag, fd.last_modified, resp))]
    /\ bg' = [bg EXCEPT !.f = @ + 1]
    /\ UNCHANGED <<pureVars, mgr, lock, cycles, status_tx, disk, fgVars>>

\* refresh_all: group.update_unread()
MgrUpdateUnread ==
    /\ mgr.pc = "refresh"
    /\ bg.g <= Len(groups)
    /\ bg.f > Len(groups[bg.g].feeds)
    /\ groups' = [groups EXCEPT ![bg.g] = update_unread(groups[bg.g])]
    /\ bg' = [bg EXCEPT !.g = @ + 1, !.f = 1]
    /\ UNCHANGED <<pureVars, mgr, lock, cycles, status_tx, disk, fgVars>>

\* refresh_all returns, its guard dropped; the task is back at select!
MgrRefreshDone ==
    /\ mgr.pc = "refresh"
    /\ bg.g > Len(groups)
    /\ lock' = "free"
    /\ bg' = [pc |-> "start", g |-> 0, f |-> 0, new_items |-> 0]
    /\ mgr' = [mgr EXCEPT !.pc = "select"]
    /\ UNCHANGED <<pureVars, groups, cycles, status_tx, disk, fgVars>>

\* tx.try_send(()): Err(Full) when the slot is taken, and the trigger is gone
MgrTrySend ==
    /\ mgr.spawned
    /\ mgr.sent < MaxTriggers
    /\ mgr' = [mgr EXCEPT
                !.sent = @ + 1,
                !.chan = IF Len(@) < TriggerCapacity /\ mgr.waiting = <<>>
                         THEN Append(@, TriggerTag) ELSE @]
    /\ UNCHANGED <<pureVars, groups, lock, bgVars, status_tx, disk, fgVars>>

\* tx.send(()).await (blocking_send from a thread): waits for the slot
MgrSend ==
    /\ mgr.spawned
    /\ mgr.sent < MaxTriggers
    /\ mgr' = IF Len(mgr.chan) < TriggerCapacity /\ mgr.waiting = <<>>
              THEN [mgr EXCEPT !.sent = @ + 1, !.chan = Append(@, TriggerTag)]
              ELSE [mgr EXCEPT !.sent = @ + 1, !.waiting = Append(@, TriggerTag)]
    /\ UNCHANGED <<pureVars, groups, lock, bgVars, status_tx, disk, fgVars>>

ManagerNext ==
    \/ MgrIntervalElapses \/ MgrTick \/ MgrRecv
    \/ MgrVisitFeed \/ MgrUpdateUnread \/ MgrRefreshDone
    \/ MgrTrySend \/ MgrSend

ManagerSpec == ManagerInit /\ [][ManagerNext]_vars

\* A task that takes manual triggers waits in its select!.
TriggerAccepted == mgr.spawned /\ mgr.pc = "select"

\* C12: a cycle begins when the interval elapses or a manual trigger
\* arrives: while the scheduler is idle, a trigger from the foreground
\* starts a cycle at once.
C12_TriggerStartsCycle == bg.pc = "sleep" => TriggerAccepted

C14_OneNotificationPerCycle ==
    /\ [][Len(status_tx') > Len(status_tx)
            => /\ bg.pc = "send"
               /\ lock # "bg"
               /\ status_tx' = Append(status_tx, [time |-> cycles, new_items |-> bg.new_items])]_vars
    /\ [][(bg.pc = "send" /\ bg' # bg)
            => (Len(status_tx') = Len(status_tx) + 1 /\ bg'.pc = "sleep")]_vars
    /\ [][(bg.pc # "send" /\ bg'.pc = "send") => (bg.pc = "visit" /\ bg.g = Len(groups) + 1)]_vars
    /\ []((bg.pc = "send" /\ Running) => ENABLED BgSend)
    /\ [](\A i \in DOMAIN status_tx :
            status_tx[i].time < cycles \/ bg.pc \in {"sleep", "start"})

\* C14 witness: the first cycle is over, its notification has reached the
\* foreground, and no other is in the channel.
C14_Witness ==
    /\ bg.pc = "sleep"
    /\ cycles = 1
    /\ status_tx = <<>>
    /\ app.status # None
    /\ app.status[1].time = 1
    /\ app.status[1].new_items > 0

\* C17: on quit the foreground saves the store under the lock and exits:
\* the file is written only then, what is written is the store as it is, no
\* cycle is in progress at that moment, and after a normal exit the file
\* holds the store.
C17_ShutdownSave ==
    /\ [][disk' # disk
            => /\ fgPc = "quit"
               /\ lock = "free"
               /\ bg.pc # "visit"
               /\ disk' \in {Some(groups), Truncated(groups)}
               /\ groups' = groups]_vars
    /\ [](fgPc = "done" => disk = Some(groups))

\* C17 witness: the program has exited after a cycle that merged a payload
\* and a foreground edit that marked every item read, and the file holds
\* both.
C17_Witness ==
    /\ fgPc = "done"
    /\ cycles = 1
    /\ bg.pc = "sleep"
    /\ disk # None
    /\ Len(disk) = 1
    /\ disk[1] # <<>>
    /\ disk[1][1].feeds # <<>>
    /\ disk[1][1].feeds[1].etag # None
    /\ disk[1][1].feeds[1].items # <<>>
    /\ \A i \in DOMAIN disk[1][1].feeds[1].items : disk[1][1].feeds[1].items[i].read
    /\ disk[1][1].unread_count = 0

\* C18: a failed save on quit is surfaced: run_app ends with Ok only when
\* both saves succeeded and the file holds the store; every failure ends in
\* the error that main returns.
C18_SaveErrorSurfaced ==
    /\ [][(fgPc = "quit" /\ fgPc' # fgPc)
            => /\ fgPc' \in {"done", "error"}
               /\ fgPc' = "done" => disk' = Some(groups)
               /\ disk' # Some(groups) => fgPc' = "error"]_vars
    /\ [](fgPc = "done" => (disk # None /\ Len(disk) = 1))

\* C18 witness: the write of a store that differs from the file's failed, and
\* the program ended with the error.
C18_Witness ==
    /\ fgPc = "error"
    /\ disk = Truncated(groups)
    /\ groups # <<>>
    /\ cycles = 1

(***************************************************************************)
(* Claims about the recount, the item operations, the lock's liveness, the *)
(* notification's count, the queue list, the selection and the load.       *)
(***************************************************************************)
\* The step is the cycle's group.update_unread() on the group under the cursor.
RecountsGroup ==
    /\ bg.pc = "visit"
    /\ bg.g <= Len(groups)
    /\ bg.f > Len(groups[bg.g].feeds)
    /\ bg' # bg

\* C21: update_unread sets the group's unread_count to the number of items
\* with read = false over all feeds of the group and changes nothing else:
\* the group's name, feeds, items and flags and every other group stay.
C21_RecountExactAndFramed ==
    [][RecountsGroup =>
          groups' = [groups EXCEPT ![bg.g].unread_count =
                                      Cardinality(UnreadPositions(groups[bg.g]))]]_vars

\* C21 witness: the cycle has recounted the first group after merging a
\* payload into its feed, which holds one read and one unread item.
C21_Witness ==
    /\ bg.pc = "visit"
    /\ bg.g = 2
    /\ Len(groups[1].feeds) = 1
    /\ groups[1].feeds[1].etag # None
    /\ Len(groups[1].feeds[1].items) = 2
    /\ \E i \in {1, 2} : groups[1].feeds[1].items[i].read
    /\ \E i \in {1, 2} : ~groups[1].feeds[1].items[i].read
    /\ groups[1].unread_count = 1

\* The items of the selected feed, empty when the selection names no feed.
SelectedItems ==
    IF /\ app.selected_group < Len(groups)
       /\ app.selected_feed < Len(groups[app.selected_group + 1].feeds)
    THEN groups[app.selected_group + 1].feeds[app.selected_feed + 1].items
    ELSE <<>>

\* C22: an item operation computes the visible-item indices and uses them
\* within one hold of the lock: when the handler is about to act on the
\* item, the indices are those of the feed's items as they are now, every
\* index is within the feed's items, and the handler does not fail on it.
C22_ItemOperationAtomic ==
    /\ fgPc = "items" =>
        /\ indices = visible_indices(app, groups).indices
        /\ \A k \in DOMAIN indices : indices[k] < Len(SelectedItems)
    /\ fgPc # "panicked"

\* C23: the foreground never holds the store lock while it waits for the
\* user's answer to a name or URL prompt or to a yes/no confirmation, so the
\* lock is free for a cycle that waits for it.
C23_NoLockWhilePrompting == fgPc = "prompt" => lock = "free"

(***************************************************************************)
(* LiveSpec: Spec with the scheduling the code relies on.  A fetch returns *)
(* (the claim's proviso), a runnable thread runs, and Mutex::lock returns  *)
(* when the mutex stays free; nothing makes the user press a key or answer *)
(* a prompt, and nothing ends the refresh thread's sleep.                  *)
(***************************************************************************)
\* One of the initial states of Spec: a stored group of one feed with two
\* items, listed in channel order.
LiveInit ==
    /\ Init
    /\ groups = <<StoredGroup(<<EntryB2, EntryA1>>)>>
    /\ app.sort = "channel"

LiveSpec ==
    /\ LiveInit
    /\ [][Next]_vars
    /\ WF_vars(BgVisitFeed) /\ WF_vars(BgUpdateUnread) /\ WF_vars(BgUnlock)
    /\ WF_vars(FgDraw) /\ WF_vars(FgGroupsKey) /\ WF_vars(FgFeedsKey)
    /\ WF_vars(FgItemsVisible) /\ WF_vars(FgItemsKey) /\ WF_vars(FgQueueKey)
    /\ WF_vars(FgQuit)

\* The places where the foreground takes the lock.
FgLockPoints == {"draw", "handler", "items", "quit"}

\* C24: while a cycle holds the lock no foreground operation touches the
\* store; every cycle releases the lock, and a foreground operation that
\* found the lock held by the cycle, the shutdown save included, goes on.
C24_BlockedForegroundProceeds ==
    /\ [][BgInSection => ~FgStoreAccess]_vars
    /\ (lock = "bg") ~> (lock # "bg")
    /\ \A pc \in FgLockPoints : (lock = "bg" /\ fgPc = pc) ~> (fgPc # pc)

\* C24 witness: the shutdown save waits while the cycle, holding the lock,
\* is between its fetches.
C24_Witness ==
    /\ lock = "bg"
    /\ bg.pc = "visit"
    /\ bg.g <= Len(groups)
    /\ fgPc = "quit"

\* The entry's published time, else its updated time, else 0.
EntryTimestamp(entry) ==
    IF entry.published # None THEN entry.published[1]
    ELSE IF entry.updated # None THEN entry.updated[1]
    ELSE 0

\* Every entry has its item; the item has the entry's time, and is unread
\* and not queued when the feed held no item of its identity.
FreshItems(pre, parsed, post) ==
    /\ Len(post.items) = Len(parsed.entries)
    /\ \E q \in Perms(Len(post.items)) :
        \A k \in DOMAIN parsed.entries :
            /\ post.items[q[k]].id = Sha1Hex16(parsed.entries[k].id)
            /\ post.items[q[k]].timestamp = EntryTimestamp(parsed.entries[k])
            /\ (\A i \in DOMAIN pre.items : pre.items[i].id # Sha1Hex16(parsed.entries[k].id))
                => (~post.items[q[k]].read /\ ~post.items[q[k]].queued)

\* Scenario A: entries (a, 100), (b, 200) merged into an empty feed.
ScenarioA ==
    LET f == merge_items(NewFeed("u"), [title |-> None, entries |-> <<EntryA1, EntryB2>>])
        g == update_unread([NewGroup("g") EXCEPT !.feeds = <<f>>])
    IN  /\ [i \in DOMAIN f.items |-> f.items[i].id] = <<Sha1Hex16("b"), Sha1Hex16("a")>>
        /\ [i \in DOMAIN f.items |-> f.items[i].timestamp] = <<200, 100>>
        /\ g.unread_count = 2

\* C25: merge_items gives every payload entry whose identity the feed did not
\* hold an item with read = false and queued = false, and every item the
\* time of its entry: published, else updated, else 0.  Entries (a, 100),
\* (b, 200) merged into an empty feed give [b, a] and an unread count of 2.
C25_FreshItems ==
    /\ [](ScenarioA)
    /\ [][obs'.op = "merge" => FreshItems(feed, obs'.parsed, feed')]_vars

\* C25 witness: the payload (a, 100 published and 200 updated), (b, 200) has
\* been merged; b is first and a, new to the feed next to a flagged b, is
\* unread and not queued with time 100.
C25_Witness ==
    /\ obs.op = "merge"
    /\ obs.parsed.entries = <<EntryA1, EntryB2>>
    /\ feed.items[1].id = Sha1Hex16("b")
    /\ feed.items[1].read
    /\ feed.items[2].id = Sha1Hex16("a")
    /\ feed.items[2].timestamp = 100
    /\ ~feed.items[2].read
    /\ ~feed.items[2].queued

\* C26: no two items of a feed have the same id, in every state reached by
\* merges and flag edits, payloads with a repeated upstream id included.
C26_IdentityUnique ==
    \A i, j \in DOMAIN feed.items : feed.items[i].id = feed.items[j].id => i = j

\* The number of items of the feed after the visit whose id the feed did
\* not hold before it.
NewIdentities(pre, post) ==
    Cardinality({i \in DOMAIN post.items :
                    \A j \in DOMAIN pre.items : pre.items[j].id # post.items[i].id})

\* C27: each visit adds to the cycle's count the number of items the feed
\* holds after it whose identity it did not hold before (0 for a 304 or a
\* failure, the number of new entries when old entries were replaced), and
\* the notification carries the sum over the cycle's visits.
C27_CountsNewIdentities ==
    /\ [][(bg.pc = "visit" /\ VisitsFeed)
            => bg'.new_items = bg.new_items
                 + NewIdentities(groups[bg.g].feeds[bg.f], groups'[bg.g].feeds[bg.f])]_vars
    /\ [][(bg.pc = "send" /\ bg'.pc = "sleep")
            => /\ Len(status_tx') = Len(status_tx) + 1
               /\ status_tx'[Len(status_tx')].new_items = bg.new_items]_vars

\* The identities of the foreground's queue list.
QueueIds == {app.queue[i].id : i \in DOMAIN app.queue}

\* The identities of the stored items with queued = true.
QueuedIds ==
    UNION {UNION {{groups[n].feeds[k].items[i].id :
                      i \in {j \in DOMAIN groups[n].feeds[k].items :
                                groups[n].feeds[k].items[j].queued}} :
                  k \in DOMAIN groups[n].feeds} :
           n \in DOMAIN groups}

\* C28: an identity is in the queue list exactly when a stored item of that
\* identity has queued = true, in every state: after a load, after a merge
\* that drops or carries a queued item, after every key.
C28_QueueMatchesFlags == QueueIds = QueuedIds

\* selected_group names a group, and selected_feed a feed of it.
GroupInRange == app.selected_group < Len(groups)

FeedInRange ==
    /\ GroupInRange
    /\ app.selected_feed < Len(groups[app.selected_group + 1].feeds)

\* C29: whatever keys and cycles came before, selected_group is less than
\* the number of groups when the store is not empty and selected_feed is less
\* than the number of feeds of the selected group when that group has feeds;
\* no handler fails on a group or feed index (a handler fails only in
\* handle_items_key, on an item index, with the group and the feed in range).
C29_SelectionValid ==
    /\ [](groups # <<>> => GroupInRange)
    /\ []((GroupInRange /\ groups[app.selected_group + 1].feeds # <<>>) => FeedInRange)
    /\ [][fgPc' = "panicked" => (fgPc = "items" /\ FeedInRange)]_vars

\* C29 witness: the user added a second feed, which is selected, then removed
\* nothing, and a cycle has run over both feeds.
C29_Witness ==
    /\ Len(groups) = 1
    /\ Len(groups[1].feeds) = 2
    /\ app.selected_feed = 1
    /\ bg.pc = "sleep"
    /\ groups[1].feeds[2].items # <<>>

\* C30: a load that failed is not taken for an empty store: the program
\* does not go on with a store built from it, and the database file that
\* could not be loaded is never overwritten.
C30_FailedLoadNotEmptyStore ==
    /\ []((obs.op = "load" /\ ~obs.ok) => ~Running)
    /\ [][(obs.op = "load" /\ ~obs.ok) => disk' = disk]_vars

====
